---- MODULE Spec2Model ----
(***************************************************************************)
(* State-machine model of the SSD1106 OLED driver (src/ssd1106.py).        *)
(*                                                                         *)
(* The state is the driver object's attributes after __init__ plus a       *)
(* record of the latest method call: its name and arguments (call), the    *)
(* exception it raised (err), the bus transfers it attempted (sent) and    *)
(* the framebuffer as it was when the call started (before), and which of  *)
(* its transfers timed out (failed).                                       *)
(***************************************************************************)
EXTENDS Integers, Sequences, FiniteSets, TLC

\* ---------------------------------------------------------------- opcodes
DISPLAYOFF          == 174  \* 0xAE
SETCONTRAST         == 129  \* 0x81
DISPLAYALLON_RESUME == 164  \* 0xA4
DISPLAYALLON        == 165  \* 0xA5
NORMALDISPLAY       == 166  \* 0xA6
INVERTDISPLAY       == 167  \* 0xA7
DISPLAYON           == 175  \* 0xAF
SETDISPLAYOFFSET    == 211  \* 0xD3
SETCOMPINS          == 218  \* 0xDA
SETVCOMDETECT       == 219  \* 0xDB
SETDISPLAYCLOCKDIV  == 213  \* 0xD5
SETPRECHARGE        == 217  \* 0xD9
SETMULTIPLEX        == 168  \* 0xA8
SETLOWCOLUMN        == 0    \* 0x00
SETHIGHCOLUMN       == 16   \* 0x10
MEMORYMODE          == 32   \* 0x20
CHARGEPUMP          == 141  \* 0x8D
SETSEGMENTREMAP     == 161  \* 0xA1
DEVID               == 60   \* 0x3C
CTL_CMD             == 0    \* 0x00
CTL_DAT             == 64   \* 0x40

\* Literals of the code that carry no name there.
Columns     == 128          \* self.columns = 128
DisplayPages == 8           \* range(0, 8) of display()'s page loop
LinesPerPage == 8           \* range(0, 8) of display()'s line loop
BurstLen    == 16           \* buffer[index:index + 16]; index += 16
PageBase    == 176          \* 0xB0 + page
ColLow      == 2            \* write_command(0x02)
ColHigh     == 16           \* write_command(0x10)

\* ---------------------------------------------------------------- bounds
\* Number of method calls made on one driver object in a run.
MaxCalls  == 4
\* A bus transfer may time out at the 1st..MaxFailAt-th transfer of a call.
MaxFailAt == 4

\* ---------------------------------------------------------------- integers
Min(a, b) == IF a < b THEN a ELSE b

\* int(y / 8): true division, then truncation toward zero.
TruncDiv(a, b) == IF a >= 0 THEN a \div b ELSE -((-a) \div b)

\* Bit i of a Python int (two's complement, sign-extended): \div floors.
Bit(v, i) == (v \div (2 ^ i)) % 2

\* a | b and a & b on the 8 bits a bytearray element keeps; a is in 0..255,
\* b may be negative (~mask).
BitOr(a, b) ==
  LET B(i) == IF Bit(a, i) = 1 \/ Bit(b, i) = 1 THEN 2 ^ i ELSE 0
  IN  B(0) + B(1) + B(2) + B(3) + B(4) + B(5) + B(6) + B(7)

BitAnd(a, b) ==
  LET B(i) == IF Bit(a, i) = 1 /\ Bit(b, i) = 1 THEN 2 ^ i ELSE 0
  IN  B(0) + B(1) + B(2) + B(3) + B(4) + B(5) + B(6) + B(7)

\* ~v
BitNot(v) == -v - 1

\* 1 << n
Shl1(n) == 2 ^ n

\* ---------------------------------------------------------------- state
VARIABLES
  pinout,        \* the pinout argument __init__ was given
  height,        \* self.height
  external_vcc,  \* self.external_vcc
  pages,         \* self.pages
  columns,       \* self.columns
  offset,        \* self.offset: 1 = I2C, 0 = SPI
  i2c,           \* bus number of self.i2c (0: attribute not set, SPI)
  devid,         \* self.devid (-1: attribute not set, SPI)
  cbuffer,       \* self.cbuffer (<<>>: attribute not set, SPI)
  dc,            \* level of the data/command pin (-1: no such pin, I2C)
  buffer,        \* self.buffer (NoBuffer: attribute not set)
  call,          \* the latest method call and its arguments
  err,           \* the exception the latest call raised, or "none"
  sent,          \* the bus transfers the latest call attempted, in order
  before,        \* self.buffer when the latest call started
  failed,        \* position in sent of the transfer that timed out, 0 if none
  ncalls         \* number of calls made so far

vars == <<pinout, height, external_vcc, pages, columns, offset, i2c, devid,
          cbuffer, dc, buffer, call, err, sent, before, failed, ncalls>>

config == <<pinout, height, external_vcc, pages, columns, offset, i2c, devid>>

\* self.buffer does not exist. Every value clear() assigns has
\* pages * columns >= 512 elements, so the empty sequence is free to stand
\* for the missing attribute.
NoBuffer == << >>

\* bytearray(n)
Zeros(n) == [i \in 1..n |-> 0]

\* One transfer on the bus: i2c.send(bytes, addr=devid) or spi.send(bytes)
\* with the data/command pin at level dcLevel.
I2CSend(bytes) == [bus |-> "i2c", addr |-> devid, dc |-> -1, bytes |-> bytes]
SPISend(dcLevel, bytes) == [bus |-> "spi", addr |-> -1, dc |-> dcLevel, bytes |-> bytes]

Call(op, x, y, state, arg) == [op |-> op, x |-> x, y |-> y, state |-> state, arg |-> arg]
NoCall == Call("__init__", 0, 0, FALSE, 0)

\* ---------------------------------------------------------------- __init__
\* The arguments a driver is constructed with: the pinout dictionary (the
\* SPI and the two I2C wirings of lcd_main.py and the X9 bus) and a height,
\* 48 standing for every value other than 32 and 64.
Pinouts == { [dc |-> "Y3", cs |-> "Y4"],
             [sda |-> "X9", scl |-> "X10"],
             [sda |-> "Y10", scl |-> "Y9"] }
HeightArgs == {32, 64, 48}

\* 'dc' in pinout
HasDC(po) == "dc" \in DOMAIN po

Init ==
  \E po \in Pinouts, h \in HeightArgs, vcc \in BOOLEAN :
    /\ pinout = po
    /\ external_vcc = vcc
    /\ height = (IF h = 32 THEN 32 ELSE 64)
    /\ pages = TruncDiv(IF h = 32 THEN 32 ELSE 64, 8)
    /\ columns = Columns
    /\ offset = (IF HasDC(po) THEN 0 ELSE 1)
    /\ i2c = (IF HasDC(po) THEN 0 ELSE IF po.sda = "X9" THEN 1 ELSE 2)
    /\ devid = (IF HasDC(po) THEN -1 ELSE DEVID)
    /\ cbuffer = (IF HasDC(po) THEN << >> ELSE <<CTL_CMD, 0>>)
    /\ dc = (IF HasDC(po) THEN 0 ELSE -1)
    /\ buffer = NoBuffer
    /\ call = NoCall
    /\ err = "none"
    /\ sent = << >>
    /\ before = NoBuffer
    /\ failed = 0
    /\ ncalls = 0

\* ---------------------------------------------------------------- clear
\* clear with the buffer sized by the page count of display()'s loop
\* instead of self.pages.
clear_FixedPages ==
  /\ ncalls < MaxCalls
  /\ buffer' = Zeros(DisplayPages * columns)
  /\ call' = Call("clear", 0, 0, FALSE, 0)
  /\ err' = "none"
  /\ sent' = << >>
  /\ failed' = 0
  /\ before' = buffer
  /\ ncalls' = ncalls + 1
  /\ UNCHANGED <<config, cbuffer, dc>>

clear ==
  /\ ncalls < MaxCalls
  /\ buffer' = Zeros(pages * columns)
  /\ call' = Call("clear", 0, 0, FALSE, 0)
  /\ err' = "none"
  /\ sent' = << >>
  /\ failed' = 0
  /\ before' = buffer
  /\ ncalls' = ncalls + 1
  /\ UNCHANGED <<config, cbuffer, dc>>

\* ---------------------------------------------------------------- set_pixel
\* PixelIndex without the division that turns a row into its page.
PixelIndex_NoPage(x, y) == x + (y * columns)

\* index = x + (int(y / 8) * self.columns)
PixelIndex(x, y) == x + (TruncDiv(y, 8) * columns)

\* The 1-based position a Python index selects in a sequence of length n;
\* 0 when the index is out of range (IndexError).
PyPos(index, n) ==
  IF index >= 0 /\ index < n THEN index + 1
  ELSE IF index < 0 /\ index >= -n THEN n + index + 1
  ELSE 0

\* PixelByte with the mask of the clearing branch not inverted.
PixelByte_NoInvert(old, y, state) ==
  IF state THEN BitOr(old, Shl1(BitAnd(y, 7)))
           ELSE BitAnd(old, Shl1(BitAnd(y, 7)))

\* PixelByte with the mask assigned, = in place of |= and &=.
PixelByte_Assign(old, y, state) ==
  IF state THEN Shl1(BitAnd(y, 7)) ELSE 0

\* The byte set_pixel stores at the indexed position:
\* buffer[index] |= (1 << (y & 7)) or buffer[index] &= ~(1 << (y & 7)).
PixelByte(old, y, state) ==
  IF state THEN BitOr(old, Shl1(BitAnd(y, 7)))
           ELSE BitAnd(old, BitNot(Shl1(BitAnd(y, 7))))

set_pixel(x, y, state) ==
  /\ ncalls < MaxCalls
  /\ call' = Call("set_pixel", x, y, state, 0)
  /\ sent' = << >>
  /\ failed' = 0
  /\ before' = buffer
  /\ ncalls' = ncalls + 1
  /\ IF buffer = NoBuffer
       THEN /\ err' = "AttributeError"
            /\ buffer' = buffer
       ELSE LET pos == PyPos(PixelIndex(x, y), Len(buffer)) IN
            IF pos = 0
              THEN /\ err' = "IndexError"
                   /\ buffer' = buffer
              ELSE /\ err' = "none"
                   /\ buffer' = [buffer EXCEPT ![pos] = PixelByte(buffer[pos], y, state)]
  /\ UNCHANGED <<config, cbuffer, dc>>

\* ---------------------------------------------------------------- the bus
\* What a method does on the bus is a sequence of steps, each either
\* write_command(cmd) or a data send of `data`.
CmdStep(b)     == [cmd |-> b, data |-> << >>]
DataStep(data) == [cmd |-> -1, data |-> data]

\* Wire with the test of self.offset inverted.
Wire_Inverted(step) ==
  IF step.cmd >= 0
    THEN IF offset = 0 THEN I2CSend(<<CTL_CMD, step.cmd>>)
                       ELSE SPISend(0, <<step.cmd>>)
    ELSE IF offset = 0 THEN I2CSend(<<CTL_DAT>> \o step.data)
                       ELSE SPISend(1, step.data)

\* The transfer a step puts on the bus.
\*   write_command, I2C: cbuffer[1] = byte; i2c.send(cbuffer)
\*   write_command, SPI: dc.low(); spi.send(byte)
\*   data, I2C: i2c.send(prefix_buffer + slice), prefix_buffer[0] = CTL_DAT
\*   data, SPI: dc.high(); spi.send(buffer)
Wire(step) ==
  IF step.cmd >= 0
    THEN IF offset = 1 THEN I2CSend(<<cbuffer[1], step.cmd>>)
                       ELSE SPISend(0, <<step.cmd>>)
    ELSE IF offset = 1 THEN I2CSend(<<CTL_DAT>> \o step.data)
                       ELSE SPISend(1, step.data)

\* Transfers may time out (OSError from send): every method draws failAt,
\* 0 meaning that none does, k that the k-th transfer of the call does; a
\* call of len steps can fail at its 1st..len-th only.
FailPoints == 0..MaxFailAt

CanFailAt(len, failAt) == failAt <= len

TimedOut(len, failAt) == failAt >= 1 /\ failAt <= len

\* How many of the len steps are attempted: the failing send raises out of
\* the method, so nothing after it runs.
\* Attempted with the timeout swallowed: the method goes on to its last step.
Attempted_Continue(len, failAt) == len

Attempted(len, failAt) == IF TimedOut(len, failAt) THEN failAt ELSE len

\* The position of the transfer that timed out, 0 if none did.
FailedAt(len, failAt) == IF TimedOut(len, failAt) THEN failAt ELSE 0

\* The transfers of the attempted steps.
Transfers(steps) == [i \in 1..Len(steps) |-> Wire(steps[i])]

\* The byte of the last write_command among the first n steps, -1 if none.
RECURSIVE LastCmd(_, _)
LastCmd(steps, n) ==
  IF n = 0 THEN -1
  ELSE IF steps[n].cmd >= 0 THEN steps[n].cmd
  ELSE LastCmd(steps, n - 1)

\* CbufferAfter with the command stored in cbuffer[0], over the control byte.
CbufferAfter_First(steps) ==
  IF offset = 1 /\ LastCmd(steps, Len(steps)) >= 0
    THEN [cbuffer EXCEPT ![1] = LastCmd(steps, Len(steps))]
    ELSE cbuffer

\* self.cbuffer after the attempted steps: write_command stores the byte in
\* cbuffer[1] before sending (I2C only).
CbufferAfter(steps) ==
  IF offset = 1 /\ LastCmd(steps, Len(steps)) >= 0
    THEN [cbuffer EXCEPT ![2] = LastCmd(steps, Len(steps))]
    ELSE cbuffer

\* The data/command pin after the attempted steps (SPI only).
DcAfter(steps) ==
  IF offset = 1 \/ Len(steps) = 0 THEN dc
  ELSE IF steps[Len(steps)].cmd >= 0 THEN 0 ELSE 1

\* A method that only writes the commands `bytes`, one write_command each:
\* write_command itself, invert_display, poweroff, contrast.
Commands(c, bytes) ==
  \E failAt \in FailPoints :
    LET len   == Len(bytes)
        steps == [i \in 1..Attempted(len, failAt) |-> CmdStep(bytes[i])]
    IN  /\ ncalls < MaxCalls
        /\ CanFailAt(len, failAt)
        /\ call' = c
        /\ sent' = Transfers(steps)
        /\ failed' = FailedAt(len, failAt)
        /\ err' = (IF TimedOut(len, failAt) THEN "OSError" ELSE "none")
        /\ cbuffer' = CbufferAfter(steps)
        /\ dc' = DcAfter(steps)
        /\ before' = buffer
        /\ ncalls' = ncalls + 1
        /\ UNCHANGED <<config, buffer>>

\* ---------------------------------------------------------------- commands
write_command(command_byte) ==
  Commands(Call("write_command", 0, 0, FALSE, command_byte), <<command_byte>>)

invert_display(invert) ==
  Commands(Call("invert_display", 0, 0, invert, 0),
           <<IF invert THEN INVERTDISPLAY ELSE NORMALDISPLAY>>)

poweroff ==
  Commands(Call("poweroff", 0, 0, FALSE, 0), <<DISPLAYOFF>>)

\* contrast writing the value init_display's unused local names (0xCF)
\* instead of its argument.
contrast_Fixed(value) ==
  Commands(Call("contrast", 0, 0, FALSE, value), <<SETCONTRAST, 207>>)

contrast(value) ==
  Commands(Call("contrast", 0, 0, FALSE, value), <<SETCONTRAST, value>>)

\* poweron that also zeroes the framebuffer.
poweron_Clearing ==
  /\ ncalls < MaxCalls
  /\ call' = Call("poweron", 0, 0, FALSE, 0)
  /\ sent' = << >>
  /\ failed' = 0
  /\ err' = "none"
  /\ before' = buffer
  /\ buffer' = Zeros(pages * columns)
  /\ ncalls' = ncalls + 1
  /\ UNCHANGED <<config, cbuffer, dc>>

\* poweron only drives chip-select and waits: no transfer, no attribute
\* changes.
poweron ==
  /\ ncalls < MaxCalls
  /\ call' = Call("poweron", 0, 0, FALSE, 0)
  /\ sent' = << >>
  /\ failed' = 0
  /\ err' = "none"
  /\ before' = buffer
  /\ ncalls' = ncalls + 1
  /\ UNCHANGED <<config, cbuffer, dc, buffer>>

\* ---------------------------------------------------------------- display
\* buf[lo:hi], a Python slice with 0 <= lo <= hi: clamped to the length.
Slice(buf, lo, hi) == SubSeq(buf, Min(lo, Len(buf)) + 1, Min(hi, Len(buf)))

\* BurstIndex with `index` set back to 0 at the start of every page.
BurstIndex_PerPage(page, line) == line * BurstLen

\* The value of `index` when the loops are at (page, line): it starts at 0
\* and grows by 16 after every send.
BurstIndex(page, line) == ((page * LinesPerPage) + line) * BurstLen

\* Steps of one iteration of the page loop: three commands, then one send
\* per line.
StepsPerPage == 3 + LinesPerPage

\* The j-th step (0-based) of the page loop's iteration `page`.
PageStep(buf, page, j) ==
  IF j = 0 THEN CmdStep(PageBase + page)
  ELSE IF j = 1 THEN CmdStep(ColLow)
  ELSE IF j = 2 THEN CmdStep(ColHigh)
  ELSE DataStep(Slice(buf, BurstIndex(page, j - 3),
                           BurstIndex(page, j - 3) + BurstLen))

\* The number of steps display() runs on framebuffer buf. With self.buffer
\* missing the I2C branch has written page 0's three commands when the first
\* slice raises AttributeError; the SPI branch has raised the pin and sent
\* nothing.
DisplayLen(buf) ==
  IF offset = 1
    THEN IF buf = NoBuffer THEN 3 ELSE DisplayPages * StepsPerPage
    ELSE IF buf = NoBuffer THEN 0 ELSE 1

\* The k-th step (1-based) of display() on framebuffer buf.
DisplayStep(buf, k) ==
  IF offset = 1
    THEN PageStep(buf, (k - 1) \div StepsPerPage, (k - 1) % StepsPerPage)
    ELSE DataStep(buf)

display ==
  \E failAt \in FailPoints :
    LET len   == DisplayLen(buffer)
        steps == [i \in 1..Attempted(len, failAt) |-> DisplayStep(buffer, i)]
    IN  /\ ncalls < MaxCalls
        /\ CanFailAt(len, failAt)
        /\ call' = Call("display", 0, 0, FALSE, 0)
        /\ sent' = Transfers(steps)
        /\ failed' = FailedAt(len, failAt)
        /\ err' = (IF TimedOut(len, failAt) THEN "OSError"
                   ELSE IF buffer = NoBuffer THEN "AttributeError"
                   ELSE "none")
        /\ cbuffer' = CbufferAfter(steps)
        /\ dc' = (IF offset = 1 THEN dc ELSE 1)
        /\ before' = buffer
        /\ ncalls' = ncalls + 1
        /\ UNCHANGED <<config, buffer>>

\* ---------------------------------------------------------------- init_display
\* The locals init_display computes from the configuration.
chargepump == IF external_vcc THEN 16 ELSE 20
precharge  == IF external_vcc THEN 34 ELSE 241
multiplex  == IF height = 32 THEN 31 ELSE 63
compins    == IF height = 32 THEN 2 ELSE 18

\* InitData with the panel switched on before it is configured.
InitData_OnFirst ==
  << DISPLAYON,
     MEMORYMODE,
     SETHIGHCOLUMN, 176, 200,
     SETLOWCOLUMN, 16, 64,
     SETCONTRAST, 127,
     SETSEGMENTREMAP,
     NORMALDISPLAY,
     SETMULTIPLEX, 63,
     DISPLAYALLON_RESUME,
     SETDISPLAYOFFSET, 0,
     SETDISPLAYCLOCKDIV, 240,
     SETPRECHARGE, 34,
     SETCOMPINS, 18,
     SETVCOMDETECT, 32,
     CHARGEPUMP, 20,
     DISPLAYOFF >>

\* The list `data` init_display writes, literal by literal.
InitData ==
  << DISPLAYOFF,
     MEMORYMODE,
     SETHIGHCOLUMN, 176, 200,
     SETLOWCOLUMN, 16, 64,
     SETCONTRAST, 127,
     SETSEGMENTREMAP,
     NORMALDISPLAY,
     SETMULTIPLEX, 63,
     DISPLAYALLON_RESUME,
     SETDISPLAYOFFSET, 0,
     SETDISPLAYCLOCKDIV, 240,
     SETPRECHARGE, 34,
     SETCOMPINS, 18,
     SETVCOMDETECT, 32,
     CHARGEPUMP, 20,
     DISPLAYON >>

\* InitStep with display() run before clear(): the refresh sends what the
\* framebuffer held when init_display was called.
InitStep_Stale(cleared, k) ==
  IF k <= Len(InitData) THEN CmdStep(InitData[k])
  ELSE DisplayStep(buffer, k - Len(InitData))

\* The k-th step of init_display: for item in data: write_command(item);
\* then clear(); then display(), which runs on the cleared buffer.
InitStep(cleared, k) ==
  IF k <= Len(InitData) THEN CmdStep(InitData[k])
  ELSE DisplayStep(cleared, k - Len(InitData))

init_display ==
  \E failAt \in FailPoints :
    LET zeros == Zeros(pages * columns)
        len   == Len(InitData) + DisplayLen(zeros)
        steps == [i \in 1..Attempted(len, failAt) |-> InitStep(zeros, i)]
        \* clear() is reached when no command of the list timed out
        cleared == ~TimedOut(Len(InitData), failAt)
    IN  /\ ncalls < MaxCalls
        /\ CanFailAt(len, failAt)
        /\ call' = Call("init_display", 0, 0, FALSE, 0)
        /\ sent' = Transfers(steps)
        /\ failed' = FailedAt(len, failAt)
        /\ err' = (IF TimedOut(len, failAt) THEN "OSError" ELSE "none")
        /\ buffer' = (IF cleared THEN zeros ELSE buffer)
        /\ cbuffer' = CbufferAfter(steps)
        /\ dc' = (IF offset = 1 THEN dc ELSE IF cleared THEN 1 ELSE 0)
        /\ before' = buffer
        /\ ncalls' = ncalls + 1
        /\ UNCHANGED config

\* ---------------------------------------------------------------- callers
\* Coordinates a caller passes to set_pixel: the two corners lcd_main.py
\* lights, a pixel inside page 1, and the nearest coordinate outside the
\* panel on each of its four sides.
PixelArgs ==
  { <<0, 0>>, <<columns - 1, height - 1>>, <<5, 9>>,
    <<columns, 0>>, <<-1, 0>>, <<0, height>>, <<0, -1>> }

\* Command bytes a caller passes to write_command directly.
CommandArgs == {DISPLAYALLON, DISPLAYON}

\* Contrast bytes a caller passes.
ContrastArgs == {0, 127, 255}

Next ==
  \/ clear
  \/ \E p \in PixelArgs, state \in BOOLEAN : set_pixel(p[1], p[2], state)
  \/ \E command_byte \in CommandArgs : write_command(command_byte)
  \/ display
  \/ init_display
  \/ \E invert \in BOOLEAN : invert_display(invert)
  \/ \E value \in ContrastArgs : contrast(value)
  \/ poweron
  \/ poweroff

Spec == Init /\ [][Next]_vars

\* ---------------------------------------------------------------- reading the bus
\* What a transfer is, read off the wire: on I2C the control byte that
\* leads it, on SPI the level of the data/command pin while it is clocked.
IsCommand(t) ==
  IF t.bus = "i2c" THEN Len(t.bytes) = 2 /\ t.bytes[1] = CTL_CMD
                   ELSE t.dc = 0 /\ Len(t.bytes) = 1

IsData(t) ==
  IF t.bus = "i2c" THEN Len(t.bytes) >= 1 /\ t.bytes[1] = CTL_DAT
                   ELSE t.dc = 1

\* The command byte of a command transfer.
CommandByte(t) == IF t.bus = "i2c" THEN t.bytes[2] ELSE t.bytes[1]

\* The framebuffer bytes a data transfer carries.
Payload(t) == IF t.bus = "i2c" THEN Tail(t.bytes) ELSE t.bytes

\* The payloads of the data transfers among the first n of s, in order.
RECURSIVE Payloads(_, _)
Payloads(s, n) ==
  IF n = 0 THEN << >>
  ELSE IF IsData(s[n]) THEN Payloads(s, n - 1) \o Payload(s[n])
  ELSE Payloads(s, n - 1)

DataBursts(s) == {i \in 1..Len(s) : IsData(s[i])}

\* Where a page-setup triple starts: a page address, then 0x02, then 0x10.
PageSetups(s) ==
  {i \in 1..(Len(s) - 2) :
     /\ IsCommand(s[i]) /\ IsCommand(s[i + 1]) /\ IsCommand(s[i + 2])
     /\ CommandByte(s[i]) >= PageBase
     /\ CommandByte(s[i + 1]) = ColLow
     /\ CommandByte(s[i + 2]) = ColHigh}

\* The latest call, and how it ended.
Did(op) == call.op = op
Returned == err = "none"
Valid(x, y) == x >= 0 /\ x < columns /\ y >= 0 /\ y < height

\* ---------------------------------------------------------------- C1
\* The byte init_display sent right after the command `opcode`.
Following(opcode) ==
  LET i == CHOOSE k \in 1..(Len(sent) - 1) :
             IsCommand(sent[k]) /\ CommandByte(sent[k]) = opcode
  IN  CommandByte(sent[i + 1])

\* C1: whenever init_display() has run to its end, the byte it sent after
\* SETMULTIPLEX is 0x1F for height 32 and 0x3F for height 64, the byte after
\* SETCOMPINS 0x02 or 0x12, the byte after CHARGEPUMP 0x10 with external
\* VCC and 0x14 without, the byte after SETPRECHARGE 0x22 or 0xF1.
C1_InitParameters ==
  (Did("init_display") /\ Returned) =>
    /\ Following(SETMULTIPLEX) = (IF height = 32 THEN 31 ELSE 63)
    /\ Following(SETCOMPINS)   = (IF height = 32 THEN 2 ELSE 18)
    /\ Following(CHARGEPUMP)   = (IF external_vcc THEN 16 ELSE 20)
    /\ Following(SETPRECHARGE) = (IF external_vcc THEN 34 ELSE 241)

\* ---------------------------------------------------------------- C2
\* C2: display() as the first call on a new driver, when no transfer times
\* out, fails, under whatever name the failure has, and has attempted no
\* transfer on the bus when it does.
C2_DisplayBeforeInit ==
  (ncalls = 1 /\ Did("display") /\ err # "OSError") =>
    (~Returned /\ sent = << >>)

\* ---------------------------------------------------------------- C3
\* C3: set_pixel with x outside 0..columns-1 or y outside 0..height-1
\* fails, under whatever name the failure has, and leaves the framebuffer
\* as it was.
C3_OutOfRangeRejected ==
  (Did("set_pixel") /\ ~Valid(call.x, call.y)) =>
    (~Returned /\ buffer = before)

\* ---------------------------------------------------------------- C4
\* C4: on I2C a display() that ran to its end has sent exactly pages * 8
\* data bursts, each with exactly 16 bytes after the control byte, and
\* exactly `pages` page-setup triples.
C4_BurstCount ==
  (Did("display") /\ Returned /\ offset = 1) =>
    /\ Cardinality(DataBursts(sent)) = pages * 8
    /\ \A i \in DataBursts(sent) : Len(Payload(sent[i])) = 16
    /\ Cardinality(PageSetups(sent)) = pages

\* ---------------------------------------------------------------- C5
\* The order the claim lists, one set of admissible bytes per position: the
\* segment-remap command is 0xA0 or 0xA1, and the four parameter positions
\* admit the values the parameter can take (which of them is sent is C1).
C5_Order ==
  << {DISPLAYOFF}, {MEMORYMODE},
     {SETHIGHCOLUMN}, {176}, {200},
     {SETLOWCOLUMN}, {16}, {64},
     {SETCONTRAST}, {127},
     {160, 161},
     {NORMALDISPLAY},
     {SETMULTIPLEX}, {31, 63},
     {DISPLAYALLON_RESUME},
     {SETDISPLAYOFFSET}, {0},
     {SETDISPLAYCLOCKDIV}, {240},
     {SETPRECHARGE}, {34, 241},
     {SETCOMPINS}, {2, 18},
     {SETVCOMDETECT}, {32},
     {CHARGEPUMP}, {16, 20},
     {DISPLAYON} >>

\* C5: the transfers of an init_display() call begin with the listed
\* commands, one transfer each, in the listed order and with nothing in
\* between, as far as the call got; a call that ran to its end sent them
\* all; and every data transfer of the call comes after the last of them.
C5_InitOrder ==
  Did("init_display") =>
    /\ \A i \in 1..Len(sent) :
         /\ i <= Len(C5_Order) =>
              (IsCommand(sent[i]) /\ CommandByte(sent[i]) \in C5_Order[i])
         /\ IsData(sent[i]) => i > Len(C5_Order)
    /\ Returned => Len(sent) > Len(C5_Order)

\* An init_display() on I2C that ran to its end: the 28 commands, then the
\* refresh with its data bursts.
C5_Witness ==
  /\ Did("init_display") /\ Returned /\ offset = 1
  /\ Len(sent) > Len(C5_Order)
  /\ CommandByte(sent[Len(C5_Order)]) = DISPLAYON
  /\ DataBursts(sent) # {}

\* ---------------------------------------------------------------- C6
\* Pixel (x, y) as the data model addresses it: bit y mod 8 of the byte at
\* index x + (y div 8) * columns.
PixelBit(buf, x, y) == Bit(buf[x + ((y \div 8) * columns) + 1], y % 8)

\* The step that completes set_pixel(x, y, true); set_pixel(x, y, false) on
\* a valid (x, y): the latest call was the first of the two and returned,
\* and the step is the second.
TogglePair ==
  /\ Did("set_pixel") /\ call.state /\ Returned /\ Valid(call.x, call.y)
  /\ call'.op = "set_pixel" /\ ~call'.state
  /\ call'.x = call.x /\ call'.y = call.y

\* C6 as claimed: the pair restores the framebuffer to what it was before
\* the two calls, whatever it was.
C6_ToggleRestores == [][TogglePair => buffer' = before]_vars

\* C6 as amended: the pair restores the framebuffer when the pixel was off
\* before the two calls; when it was on, the pair leaves the framebuffer
\* with that one bit cleared and everything else as before.
C6_ToggleRestoresIfOff ==
  [][TogglePair =>
       /\ err' = "none"
       /\ IF PixelBit(before, call.x, call.y) = 0
            THEN buffer' = before
            ELSE /\ PixelBit(buffer', call.x, call.y) = 0
                 /\ \A x \in 0..(columns - 1), y \in 0..(height - 1) :
                      (x # call.x \/ y # call.y) =>
                        PixelBit(buffer', x, y) = PixelBit(before, x, y)
                 /\ Len(buffer') = Len(before)]_vars

\* Three calls: clear() or init_display(), set_pixel(5, 9, true),
\* set_pixel(5, 9, false). No other coordinate the callers pass addresses
\* the bit of pixel (5, 9), so it was lit by the second call, and the third
\* has put the framebuffer back to all zero.
C6_Witness ==
  /\ ncalls = 3
  /\ call = Call("set_pixel", 5, 9, FALSE, 0) /\ Returned
  /\ PixelBit(before, 5, 9) = 1
  /\ buffer = Zeros(pages * columns)

\* ---------------------------------------------------------------- C7
\* C7: a set_pixel(x, y, on) with valid (x, y) on an existing framebuffer
\* returns, and afterwards bit y mod 8 of bytes[x + (y div 8) * columns] is
\* `on`; with height 64 on a cleared buffer, set_pixel(0, 0, true) gives
\* byte 0 = 0x01 and set_pixel(127, 63, true) gives byte 1023 = 0x80.
C7_PixelReadBack ==
  (Did("set_pixel") /\ Valid(call.x, call.y) /\ before # NoBuffer) =>
    /\ Returned
    /\ PixelBit(buffer, call.x, call.y) = (IF call.state THEN 1 ELSE 0)
    /\ (height = 64 /\ before = Zeros(pages * columns) /\ call.state) =>
         /\ (call.x = 0 /\ call.y = 0) => buffer[0 + 1] = 1
         /\ (call.x = 127 /\ call.y = 63) => buffer[1023 + 1] = 128

\* set_pixel(127, 63, true) on a cleared 64-row buffer.
C7_Witness ==
  /\ call = Call("set_pixel", 127, 63, TRUE, 0) /\ Returned
  /\ height = 64
  /\ before = Zeros(pages * columns)
  /\ buffer[1024] = 128

\* ---------------------------------------------------------------- C8
\* C8: a display() that ran to its end has sent, as the payloads of its
\* data transfers taken in order, exactly the framebuffer, on either
\* transport and for either height.
C8_FullBuffer ==
  (Did("display") /\ Returned) =>
    /\ Payloads(sent, Len(sent)) = buffer
    /\ Len(buffer) = pages * columns

\* A refresh on I2C of a 32-row framebuffer with a lit pixel.
C8_Witness ==
  /\ Did("display") /\ Returned
  /\ offset = 1 /\ height = 32
  /\ \E i \in 1..Len(buffer) : buffer[i] # 0
  /\ Payloads(sent, Len(sent)) = buffer

\* ---------------------------------------------------------------- C9
\* C9: the framebuffer exists from construction on and always has length
\* pages * columns; it is all zero until the first call, and a set_pixel
\* on a valid coordinate as first call returns.
C9_BufferFromConstruction ==
  /\ buffer # NoBuffer
  /\ Len(buffer) = pages * columns
  /\ ncalls = 0 => buffer = Zeros(pages * columns)
  /\ (ncalls = 1 /\ Did("set_pixel") /\ Valid(call.x, call.y)) => Returned

\* ---------------------------------------------------------------- C10
\* C10: poweroff() sends exactly one transfer, the command DISPLAYOFF; and
\* a display(), invert_display() or contrast() that follows a completed
\* poweroff() with no poweron() in between fails and attempts no transfer.
C10_PowerOffTerminal ==
  [][/\ (call'.op = "poweroff" /\ err' = "none") =>
          /\ Len(sent') = 1
          /\ IsCommand(sent'[1]) /\ CommandByte(sent'[1]) = DISPLAYOFF
     /\ (Did("poweroff") /\ Returned
           /\ call'.op \in {"display", "invert_display", "contrast"}) =>
          (err' # "none" /\ sent' = << >>)]_vars

\* ---------------------------------------------------------------- C11
\* C11: after clear() every byte of the framebuffer is 0 and its length is
\* pages * columns, 512 for height 32 and 1024 for height 64, whatever it
\* held before.
C11_ClearZeroes ==
  Did("clear") =>
    /\ Len(buffer) = pages * columns
    /\ Len(buffer) = (IF height = 32 THEN 512 ELSE 1024)
    /\ \A i \in 1..Len(buffer) : buffer[i] = 0
    /\ Returned

\* A clear() of a framebuffer that had a lit pixel.
C11_Witness ==
  /\ Did("clear")
  /\ before # NoBuffer
  /\ \E i \in 1..Len(before) : before[i] # 0
  /\ \A i \in 1..Len(buffer) : buffer[i] = 0

\* ---------------------------------------------------------------- C12
\* C12: a contrast(value) that ran to its end has sent exactly two
\* transfers, both commands: SETCONTRAST, then the byte it was given.
C12_ContrastForwarded ==
  (Did("contrast") /\ Returned) =>
    /\ Len(sent) = 2
    /\ IsCommand(sent[1]) /\ CommandByte(sent[1]) = SETCONTRAST
    /\ IsCommand(sent[2]) /\ CommandByte(sent[2]) = call.arg

\* contrast(255) on I2C.
C12_Witness ==
  /\ Did("contrast") /\ Returned /\ call.arg = 255
  /\ offset = 1
  /\ Len(sent) = 2 /\ CommandByte(sent[2]) = 255

\* ---------------------------------------------------------------- C13
\* C13: in every state the driver has exactly one transport, SPI if the
\* pinout it was constructed with has the key 'dc' and I2C otherwise: only
\* that variant's attributes exist, and every transfer goes over its bus.
C13_TransportFixed ==
  LET spi == "dc" \in DOMAIN pinout IN
  /\ offset = (IF spi THEN 0 ELSE 1)
  /\ spi  => (i2c = 0 /\ devid = -1 /\ cbuffer = << >> /\ dc \in {0, 1})
  /\ ~spi => (i2c \in {1, 2} /\ devid = DEVID /\ Len(cbuffer) = 2 /\ dc = -1)
  /\ \A k \in 1..Len(sent) : sent[k].bus = (IF spi THEN "spi" ELSE "i2c")

\* A driver constructed with a 'dc' pin, three calls later, the latest of
\* which went over SPI.
C13_Witness ==
  /\ "dc" \in DOMAIN pinout
  /\ ncalls >= 3
  /\ Len(sent) >= 1 /\ sent[1].bus = "spi"

\* ---------------------------------------------------------------- C14
\* C14: on I2C a display() that ran to its end has visited the pages
\* 0..pages-1 in ascending order and nothing else: for page p the commands
\* 0xB0 + p, 0x02, 0x10, then 8 data bursts, the k-th carrying the bytes
\* [p * 128 + 16 k, p * 128 + 16 k + 16) of the framebuffer.
C14_PageOrder ==
  (Did("display") /\ Returned /\ offset = 1) =>
    /\ Len(sent) = pages * 11
    /\ \A p \in 0..(pages - 1) :
         LET b == p * 11 IN
         /\ IsCommand(sent[b + 1]) /\ CommandByte(sent[b + 1]) = 176 + p
         /\ IsCommand(sent[b + 2]) /\ CommandByte(sent[b + 2]) = 2
         /\ IsCommand(sent[b + 3]) /\ CommandByte(sent[b + 3]) = 16
         /\ \A k \in 0..7 :
              /\ IsData(sent[b + 4 + k])
              /\ Payload(sent[b + 4 + k]) =
                   SubSeq(buffer, (p * 128) + (16 * k) + 1,
                                  (p * 128) + (16 * k) + 16)

\* ---------------------------------------------------------------- C15
\* C15: when init_display() returns the framebuffer is all zero, whatever it
\* held before, and the refresh it ends with comes after the last command of
\* the list (DISPLAYON) and carries zero bytes only, one per framebuffer byte.
C15_InitEndsCleared ==
  (Did("init_display") /\ Returned) =>
    LET n == Len(InitData) IN
    /\ Len(buffer) = pages * columns
    /\ \A i \in 1..Len(buffer) : buffer[i] = 0
    /\ Len(sent) > n
    /\ IsCommand(sent[n]) /\ CommandByte(sent[n]) = DISPLAYON
    /\ \A i \in 1..n : IsCommand(sent[i])
    /\ DataBursts(sent) # {}
    /\ \A i \in DataBursts(sent) :
         /\ i > n
         /\ \A j \in 1..Len(Payload(sent[i])) : Payload(sent[i])[j] = 0
    /\ Payloads(SubSeq(sent, n + 1, Len(sent)), Len(sent) - n) = buffer

\* init_display returned on a driver whose framebuffer had a pixel lit.
C15_Witness ==
  /\ Did("init_display") /\ Returned
  /\ before # NoBuffer
  /\ \E i \in 1..Len(before) : before[i] # 0
  /\ DataBursts(sent) # {}

\* ---------------------------------------------------------------- C16
\* C16: a display() that a timeout ends has attempted the failed transfer
\* once, as the last of the call, and has left the framebuffer as it was; a
\* display() that follows it and returns starts at page 0 and carries the
\* whole framebuffer.
C16_Fails ==
  (call'.op = "display" /\ err' = "OSError") =>
    /\ failed' >= 1
    /\ Len(sent') = failed'
    /\ buffer' = buffer

C16_Retry ==
  (Did("display") /\ err = "OSError" /\ call'.op = "display" /\ err' = "none") =>
    /\ buffer' = buffer
    /\ Len(sent') >= Len(sent)
    /\ \A i \in 1..(Len(sent) - 1) : sent'[i] = sent[i]
    /\ offset = 1 =>
         IsCommand(sent'[1]) /\ CommandByte(sent'[1]) = PageBase
    /\ Payloads(sent', Len(sent')) = buffer'

C16_FailureSurfaces == [][C16_Fails /\ C16_Retry]_vars

\* A display() on I2C whose first data burst timed out, with a pixel lit in
\* the framebuffer and a call left for the caller to try again.
C16_Witness ==
  /\ Did("display") /\ err = "OSError"
  /\ offset = 1
  /\ failed = 4 /\ Len(sent) = 4 /\ IsData(sent[4])
  /\ buffer = before
  /\ \E i \in 1..Len(buffer) : buffer[i] # 0
  /\ ncalls < MaxCalls

\* ---------------------------------------------------------------- C17
\* The transfers s of a refresh on I2C, complete or cut short: of every 11
\* the first 3 are commands, [0x00, byte], the other 8 are data, 0x40
\* followed by the next 16 bytes of the framebuffer.
RefreshFramed(s) ==
  \A k \in 1..Len(s) :
    LET b    == s[k].bytes
        page == (k - 1) \div 11
        j    == (k - 1) % 11
        idx  == ((page * 8) + (j - 3)) * 16
    IN  IF j < 3
          THEN Len(b) = 2 /\ b[1] = 0
          ELSE /\ Len(b) >= 1 /\ b[1] = 64
               /\ Tail(b) = Slice(buffer, idx, idx + 16)

\* C17: on I2C the first byte of the command scratch buffer is 0x00 in every
\* state; every transfer is either a command, exactly [0x00, byte], or data
\* led by 0x40; the methods that only write commands send nothing under
\* 0x40, and a refresh sends its addressing bytes under 0x00 and framebuffer
\* bytes under 0x40 only.
C17_ControlBytes ==
  offset = 1 =>
    /\ Len(cbuffer) = 2 /\ cbuffer[1] = 0
    /\ \A k \in 1..Len(sent) :
         LET b == sent[k].bytes IN
         /\ sent[k].addr = DEVID
         /\ Len(b) >= 1
         /\ (Len(b) = 2 /\ b[1] = 0) \/ b[1] = 64
    /\ call.op \in {"write_command", "invert_display", "contrast",
                    "poweron", "poweroff"} =>
         \A k \in 1..Len(sent) : sent[k].bytes[1] = 0
    /\ Did("display") => RefreshFramed(sent)
    /\ Did("init_display") =>
         /\ \A k \in 1..Min(Len(sent), Len(InitData)) :
              sent[k].bytes = <<0, InitData[k]>>
         /\ Len(sent) > Len(InitData) =>
              RefreshFramed(SubSeq(sent, Len(InitData) + 1, Len(sent)))

\* A refresh on I2C, the fourth call or later, of a framebuffer with a pixel
\* lit: commands under 0x00, a burst with a non-zero byte under 0x40.
C17_Witness ==
  /\ offset = 1
  /\ Did("display") /\ Returned
  /\ ncalls >= 4
  /\ cbuffer = <<0, 16>>
  /\ sent[1].bytes = <<0, 176>>
  /\ sent[4].bytes[1] = 64
  /\ \E k \in 1..Len(sent) : \E i \in 2..Len(sent[k].bytes) :
       sent[k].bytes[1] = 64 /\ sent[k].bytes[i] # 0

\* ---------------------------------------------------------------- C18
\* C18: set_pixel(x, y, on) with 0 <= x < columns and 0 <= y < height
\* changes at most bit y mod 8 of byte x + (y div 8) * columns: the other
\* bits of that byte, the other bytes and the length of the framebuffer are
\* as before, and every byte is in 0..255.
C18_OneBit ==
  (Did("set_pixel") /\ Valid(call.x, call.y) /\ Returned) =>
    LET pos == call.x + ((call.y \div 8) * columns) + 1
        bit == call.y % 8
    IN  /\ Len(buffer) = Len(before)
        /\ pos \in 1..Len(buffer)
        /\ \A i \in 1..Len(buffer) : i # pos => buffer[i] = before[i]
        /\ \A b \in 0..7 : b # bit => Bit(buffer[pos], b) = Bit(before[pos], b)
        /\ \A i \in 1..Len(buffer) : buffer[i] \in 0..255

\* set_pixel(0, 0, True) on a byte whose bit 7 was lit: bit 0 joins it.
C18_Witness ==
  /\ call = Call("set_pixel", 0, 0, TRUE, 0) /\ Returned
  /\ before[1] = 128
  /\ buffer[1] = 129

\* ---------------------------------------------------------------- C19
\* C19: display, write_command, invert_display, contrast, poweron and
\* poweroff leave the framebuffer as it was, however they end; a display()
\* that returns right after a display() that returned sends the same data
\* payloads.
C19_Keeps ==
  call'.op \in {"display", "write_command", "invert_display", "contrast",
                "poweron", "poweroff"} => buffer' = buffer

C19_SameRefresh ==
  (Did("display") /\ Returned /\ call'.op = "display" /\ err' = "none") =>
    /\ Len(sent') = Len(sent)
    /\ DataBursts(sent') = DataBursts(sent)
    /\ \A i \in DataBursts(sent) : Payload(sent'[i]) = Payload(sent[i])

C19_FramebufferKept == [][C19_Keeps /\ C19_SameRefresh]_vars

\* poweron has run on a framebuffer with a pixel lit, and has left it so.
C19_Witness ==
  /\ Did("poweron")
  /\ buffer # NoBuffer
  /\ buffer = before
  /\ \E i \in 1..Len(buffer) : buffer[i] # 0

====
